---- MODULE Spec2Model ----
(***************************************************************************)
(* Model of wiki/wiki/doctype/wiki_page/search.py: the redisearch glue of  *)
(* the Wiki app (search, rebuild_index, rebuild_index_in_background,       *)
(* update_index, remove_index, drop_index).                                *)
(*                                                                         *)
(* Python strings are sequences of one-character strings, so that          *)
(* "in", startswith, replace, split and f-string concatenation are         *)
(* computed the way Python computes them.                                  *)
(***************************************************************************)
EXTENDS Naturals, Sequences, FiniteSets, TLC

VARIABLES
    spaces,       \* frappe.db.get_all("Wiki Space", pluck="route"), in retrieval order
    pages,        \* the Wiki Page collection: name -> [name, route, rev]
    use_redisearch, \* Wiki Settings.use_redisearch_for_search
    redisearch_available, \* module global _redisearch_available
    flag,         \* cache value wiki_page_index_in_progress
    queue,        \* number of rebuild_index jobs waiting in the "long" queue
    indexes,      \* names of the redisearch indexes that exist
    store,        \* redis hashes: key -> [title, content, route]
    admitted,     \* calls of rebuild_index_in_background between lines 125 and 127
    wpc,          \* position of each background worker inside rebuild_index
    wi,           \* worker: position of the loop "for space in spaces"
    wpages,       \* worker: the wiki_pages list read at line 98
    wtodo,        \* worker: records of records_to_index not yet written
    wlog,         \* worker: what happened to each space in the current run
    calls,        \* number of rebuild_index_in_background calls made so far
    dropped,      \* number of those calls that found the flag set and returned
    edits,        \* number of page saves / deletions made so far
    faults,       \* number of backend faults injected so far
    ret           \* outcome of the operation that returned last

vars == <<spaces, pages, use_redisearch, redisearch_available, flag, queue,
          indexes, store, admitted, wpc, wi, wpages, wtodo, wlog, calls,
          dropped, edits, faults, ret>>

(***************************************************************************)
(* Bounds of the model.                                                    *)
(***************************************************************************)
\* page saves, page deletions, rebuild_index_in_background calls and backend
\* faults in one behaviour, all together
MaxOps == 3

\* length of the query strings search is given
MaxQueryLen == 4

Workers == {"w1", "w2"}

\* the environment may still act
Budget == calls + edits + faults < MaxOps

(***************************************************************************)
(* Python string operations.                                               *)
(***************************************************************************)
None == <<"None">>

StartsWith(s, p) == Len(p) <= Len(s) /\ SubSeq(s, 1, Len(p)) = p

EndsWith(s, p) == Len(p) <= Len(s) /\ SubSeq(s, Len(s) - Len(p) + 1, Len(s)) = p

\* Python "p in s" on strings: p occurs somewhere in s
Contains(s, p) == \E i \in 0..(Len(s) - Len(p)) : SubSeq(s, i + 1, i + Len(p)) = p

\* Python s.replace(old, ""): every non-overlapping occurrence, left to right
RECURSIVE Remove(_, _)
Remove(s, old) ==
    IF s = <<>> \/ old = <<>> THEN s
    ELSE IF StartsWith(s, old) THEN Remove(SubSeq(s, Len(old) + 1, Len(s)), old)
    ELSE <<Head(s)>> \o Remove(Tail(s), old)

\* position of the first occurrence of character c in s, 0 when there is none
RECURSIVE FindChar(_, _, _)
FindChar(s, c, i) ==
    IF i > Len(s) THEN 0
    ELSE IF s[i] = c THEN i
    ELSE FindChar(s, c, i + 1)

\* Python s.split(c): the parts between occurrences of the character c
RECURSIVE Split(_, _)
Split(s, c) ==
    LET k == FindChar(s, c, 1) IN
    IF k = 0 THEN <<s>>
    ELSE <<SubSeq(s, 1, k - 1)>> \o Split(SubSeq(s, k + 1, Len(s)), c)

\* Python s.split(c, 1): at most one split, at the first occurrence of c
Split1(s, c) ==
    LET k == FindChar(s, c, 1) IN
    IF k = 0 THEN <<s>>
    ELSE <<SubSeq(s, 1, k - 1), SubSeq(s, k + 1, Len(s))>>

\* Python " ".join(parts)
RECURSIVE Join(_, _)
Join(parts, sep) ==
    IF parts = <<>> THEN <<>>
    ELSE IF Len(parts) = 1 THEN parts[1]
    ELSE parts[1] \o sep \o Join(Tail(parts), sep)

\* what an f-string makes of a value that may be None
Fmt(x) == IF x = None THEN <<"N", "o", "n", "e">> ELSE x

Min(S) == CHOOSE x \in S : \A y \in S : x <= y

(***************************************************************************)
(* The data the model runs on.  A page's title and content are one         *)
(* revision number: every save of a page gives it the next revision.       *)
(***************************************************************************)
D == <<"d">>
DA == <<"d", "/", "a">>
DC == <<"d", ":", "a">>

\* the Wiki Space tables (in retrieval order) a site may hold
SpaceLists == {<<D, DA>>, <<D, DC>>}

PageRoutes == {<<"d", "/", "i">>,
               <<"d", "/", "v", "2", "/", "i">>,
               <<"d", "/", "v", "i">>,
               <<"d", "/", "a", "/", "i">>,
               <<"d", ":", "a", "/", "i">>,
               <<"x">>}

NameOrder == <<(<<"p">>), (<<"q">>)>>
Names == {NameOrder[i] : i \in 1..Len(NameOrder)}

\* the routes a page of that name is created at: a page is put under the
\* nested space only on a site that has this space
RoutesOf(n) ==
    IF n = <<"p">>
    THEN {r \in PageRoutes :
             (StartsWith(r, DA) \/ StartsWith(r, DC)) => StartsWith(r, spaces[2])}
    ELSE {<<"d", "/", "i">>}

(***************************************************************************)
(* Keys and indexes.                                                       *)
(***************************************************************************)
PREFIX == <<"wiki_page_search_doc">>

\* RedisWrapper.make_key: the site's database name is put in front
make_key(k) == <<"db|">> \o k

\* f"{PREFIX}{space}:{d.name}" passed through make_key
RecordKey(space, name) == make_key(PREFIX \o Fmt(space) \o <<":">> \o name)

\* the key prefix the index of a space is defined over
IndexPrefix(space) == make_key(PREFIX \o Fmt(space)) \o <<":">>

\* the hashes a redisearch index of that space holds, given the hashes st
IndexedKeys(st, space) == {k \in DOMAIN st : StartsWith(k, IndexPrefix(space))}

\* the function f without the arguments in K
Without(f, K) == [x \in (DOMAIN f) \ K |-> f[x]]

\* the function f with f[k] = v
With(f, k, v) == [x \in (DOMAIN f) \cup {k} |-> IF x = k THEN v ELSE f[x]]

\* doc.id.split(":", 1)[1]
DocName(id) == Split1(id, ":")[2]

get_space_route(path) ==
    LET hits == {i \in 1..Len(spaces) : Contains(path, spaces[i])} IN
    IF hits = {} THEN None ELSE spaces[Min(hits)]

\* the condition of the list comprehension records_to_index
Selected(space, route) ==
    \/ space \o <<"/">> = route
    \/ /\ StartsWith(route, space \o <<"/">>)
       /\ ~StartsWith(Remove(route, space \o <<"/">>), <<"v">>)

\* records_to_index, in the order of wiki_pages
records_to_index(space, wiki_pages) ==
    LET keep(n) == n \in DOMAIN wiki_pages /\ Selected(space, wiki_pages[n].route)
        names == SelectSeq(NameOrder, keep)
    IN [i \in 1..Len(names) |-> wiki_pages[names[i]]]

\* the mapping create_index_for_records writes for a record
Mapping(d) == [rev |-> d.rev, route |-> d.route]

EmptyFn == [x \in {} |-> 0]

(***************************************************************************)
(* The redisearch backend, as search.py uses it.  A command either acts or *)
(* raises redis.exceptions.ResponseError (err).                            *)
(***************************************************************************)
\* FT.DROPINDEX name DD: unknown index is an error; the indexed hashes go too
ft_dropindex(idx, st, space) ==
    IF Fmt(space) \in idx
    THEN [err |-> FALSE, indexes |-> idx \ {Fmt(space)},
          store |-> Without(st, IndexedKeys(st, space))]
    ELSE [err |-> TRUE, indexes |-> idx, store |-> st]

\* FT.CREATE name PREFIX 1 prefix: an index that exists is an error
ft_create_index(idx, space) ==
    IF Fmt(space) \in idx
    THEN [err |-> TRUE, indexes |-> idx]
    ELSE [err |-> FALSE, indexes |-> idx \cup {Fmt(space)}]

\* FT.DEL name key: unknown index is an error; a key the index does not hold
\* deletes nothing
ft_delete_document(idx, st, space, key) ==
    IF Fmt(space) \in idx
    THEN [err |-> FALSE, store |-> Without(st, {key} \cap IndexedKeys(st, space))]
    ELSE [err |-> TRUE, store |-> st]

\* whether drop_index lets the ResponseError of dropindex out (except: pass)
DropRaises(err) == FALSE

drop_index(idx, st, space) ==
    LET r == ft_dropindex(idx, st, space) IN
    [raised |-> DropRaises(r.err), indexes |-> r.indexes, store |-> r.store]

\* whether remove_index_for_records lets the ResponseError of delete_document out
RemoveRaises_propagate(err) == err

RemoveRaises(err) == FALSE

remove_index_for_records(idx, st, d, space) ==
    LET r == ft_delete_document(idx, st, space, RecordKey(space, d.name)) IN
    [raised |-> RemoveRaises(r.err), err |-> r.err, store |-> r.store]

\* remove_index(doc): the store it leaves and whether it raised
remove_index(idx, st, d) == remove_index_for_records(idx, st, d, get_space_route(d.route))

\* create_index_for_records([d], space) without a backend fault
hset_record_append(st, d, space) ==
    LET key == RecordKey(space, d.name) IN
    IF key \in DOMAIN st
    THEN With(st, key \o <<"+">>, Mapping(d))
    ELSE With(st, key, Mapping(d))

hset_record(st, d, space) == With(st, RecordKey(space, d.name), Mapping(d))

(***************************************************************************)
(* rebuild_index_in_background                                             *)
(***************************************************************************)
Admit_always(v) == TRUE

\* the condition of line 125 on the flag value read from the cache
Admit(v) == ~v

FlagAfterCheck_testandset(v) == TRUE

\* lines 125-127 read the flag and never write it: the flag after the check
FlagAfterCheck(v) == v

\* line 125: a call reads the flag; a call that finds it set returns
RIB_Call ==
    /\ Budget
    /\ calls' = calls + 1
    /\ admitted' = IF Admit(flag) THEN admitted + 1 ELSE admitted
    /\ dropped' = IF Admit(flag) THEN dropped ELSE dropped + 1
    /\ flag' = FlagAfterCheck(flag)
    /\ UNCHANGED <<spaces, pages, use_redisearch, redisearch_available,
                   queue, indexes, store, wpc, wi, wpages, wtodo, wlog, edits,
                   faults, ret>>

\* line 127: frappe.enqueue(rebuild_index, queue="long")
RIB_Enqueue ==
    /\ admitted > 0
    /\ queue' = queue + 1
    /\ admitted' = admitted - 1
    /\ UNCHANGED <<spaces, pages, use_redisearch, redisearch_available, flag,
                   indexes, store, wpc, wi, wpages, wtodo, wlog, calls, dropped, edits,
                   faults, ret>>

(***************************************************************************)
(* rebuild_index, run by a background worker, one backend command a step   *)
(***************************************************************************)
\* where the loop goes once the iteration for spaces[i] is over
NextIter(i) ==
    IF i < Len(spaces) THEN [pc |-> "drop", i |-> i + 1]
    ELSE [pc |-> "finish", i |-> i]

OnResponseError_abort(i) == [pc |-> "finish", i |-> i]

OnResponseError_raise(i) == [pc |-> "idle", i |-> 0]

\* lines 118-119: the except clause sits inside the loop
OnResponseError(i) == NextIter(i)

\* the worker leaves the iteration for spaces[wi[w]] with the given outcome
EndIteration(w, outcome, cont) ==
    /\ wlog' = [wlog EXCEPT ![w][wi[w]] = outcome]
    /\ wpc' = [wpc EXCEPT ![w] = cont.pc]
    /\ wi' = [wi EXCEPT ![w] = cont.i]
    /\ wtodo' = [wtodo EXCEPT ![w] = <<>>]

\* lines 87-98: set the flag, read the spaces and the pages
Rebuild_Start(w) ==
    /\ wpc[w] = "idle"
    /\ queue > 0
    /\ queue' = queue - 1
    /\ flag' = TRUE
    /\ wpages' = [wpages EXCEPT ![w] = pages]
    /\ wlog' = [wlog EXCEPT ![w] = [i \in 1..Len(spaces) |-> "none"]]
    /\ wi' = [wi EXCEPT ![w] = 1]
    /\ wpc' = [wpc EXCEPT ![w] = "drop"]
    /\ UNCHANGED <<spaces, pages, use_redisearch, redisearch_available, indexes,
                   store, admitted, wtodo, calls, dropped, edits, faults, ret>>

\* line 101: drop_index(space)
Rebuild_Drop(w) ==
    /\ wpc[w] = "drop"
    /\ LET r == drop_index(indexes, store, spaces[wi[w]]) IN
         /\ indexes' = r.indexes
         /\ store' = r.store
    /\ wpc' = [wpc EXCEPT ![w] = "create"]
    /\ UNCHANGED <<spaces, pages, use_redisearch, redisearch_available, flag,
                   queue, admitted, wi, wpages, wtodo, wlog, calls, dropped, edits, faults, ret>>

\* lines 103-116: create_index, then records_to_index
Rebuild_Create(w) ==
    /\ wpc[w] = "create"
    /\ LET space == spaces[wi[w]]
           r == ft_create_index(indexes, space)
           recs == records_to_index(space, wpages[w])
       IN
         \/ /\ ~r.err
            /\ indexes' = r.indexes
            /\ IF recs = <<>>
               THEN EndIteration(w, "ok", NextIter(wi[w]))
               ELSE /\ wtodo' = [wtodo EXCEPT ![w] = recs]
                    /\ wpc' = [wpc EXCEPT ![w] = "populate"]
                    /\ UNCHANGED <<wi, wlog>>
            /\ UNCHANGED faults
         \/ /\ r.err \/ Budget
            /\ faults' = IF r.err THEN faults ELSE faults + 1
            /\ indexes' = indexes
            /\ EndIteration(w, "failed", OnResponseError(wi[w]))
    /\ UNCHANGED <<spaces, pages, use_redisearch, redisearch_available, flag,
                   queue, store, admitted, wpages, calls, dropped, edits, ret>>

\* lines 132-142 under line 117: one hset of create_index_for_records
Rebuild_Hset(w) ==
    /\ wpc[w] = "populate"
    /\ LET space == spaces[wi[w]]
           d == Head(wtodo[w])
       IN
         \/ /\ store' = hset_record(store, d, space)
            /\ IF Len(wtodo[w]) = 1
               THEN EndIteration(w, "ok", NextIter(wi[w]))
               ELSE /\ wtodo' = [wtodo EXCEPT ![w] = Tail(wtodo[w])]
                    /\ UNCHANGED <<wpc, wi, wlog>>
            /\ UNCHANGED faults
         \/ /\ Budget
            /\ faults' = faults + 1
            /\ store' = store
            /\ EndIteration(w, "failed", OnResponseError(wi[w]))
    /\ UNCHANGED <<spaces, pages, use_redisearch, redisearch_available, flag,
                   queue, indexes, admitted, wpages, calls, dropped, edits, ret>>

\* line 121: r.set_value("wiki_page_index_in_progress", False)
Rebuild_Finish(w) ==
    /\ wpc[w] = "finish"
    /\ flag' = FALSE
    /\ wpc' = [wpc EXCEPT ![w] = "idle"]
    /\ wi' = [wi EXCEPT ![w] = 0]
    /\ wpages' = [wpages EXCEPT ![w] = EmptyFn]
    /\ wlog' = [wlog EXCEPT ![w] = <<>>]
    /\ UNCHANGED <<spaces, pages, use_redisearch, redisearch_available, queue,
                   indexes, store, admitted, wtodo, calls, dropped, edits, faults, ret>>

(***************************************************************************)
(* update_index and remove_index, called when a page is saved or deleted   *)
(***************************************************************************)
NoDoc == [name |-> <<>>, route |-> <<>>]

NoRet == [op |-> "none", raised |-> FALSE, err |-> FALSE, engine |-> "", ft |-> FALSE,
          arg |-> <<>>, path |-> <<>>, space |-> <<>>, cq |-> <<>>, q |-> <<>>,
          docs |-> {}, d |-> NoDoc]

\* a page is saved (created, or edited at its route) and update_index(doc) runs
update_index(n, route) ==
    /\ Budget
    /\ IF n \in DOMAIN pages
       THEN route = pages[n].route
       ELSE route \in RoutesOf(n)
    /\ LET doc == [name |-> n, route |-> route,
                   rev |-> IF n \in DOMAIN pages THEN pages[n].rev + 1 ELSE 1]
           space == get_space_route(doc.route)
       IN
         /\ pages' = With(pages, n, doc)
         /\ store' = hset_record(store, doc, space)
    /\ edits' = edits + 1
    /\ UNCHANGED <<spaces, use_redisearch, redisearch_available, flag, queue,
                   indexes, admitted, wpc, wi, wpages, wtodo, wlog, calls, dropped, faults,
                   ret>>

\* remove_index(doc) runs for a page that is deleted, or was deleted before
remove_index_call(n, route) ==
    /\ Budget
    /\ IF n \in DOMAIN pages
       THEN route = pages[n].route
       ELSE route \in RoutesOf(n)
    /\ LET doc == [name |-> n, route |-> route]
           r == remove_index(indexes, store, doc)
       IN
         /\ pages' = Without(pages, {n})
         /\ store' = r.store
         /\ ret' = [NoRet EXCEPT !.op = "remove_index", !.raised = r.raised,
                                 !.err = r.err,
                                 !.space = get_space_route(route), !.d = doc]
    /\ edits' = edits + 1
    /\ UNCHANGED <<spaces, use_redisearch, redisearch_available, flag, queue,
                   indexes, admitted, wpc, wi, wpages, wtodo, wlog, calls, dropped, faults>>

(***************************************************************************)
(* search                                                                  *)
(***************************************************************************)
UnsafeChars == {"<"}

\* WikiSearch.clean_query: the engine-unsafe characters are stripped
clean_query(query) == SelectSeq(query, LAMBDA c : c \notin UnsafeChars)

NeedsStar_always(query_parts) == Len(query_parts) = 1

\* the condition of line 48
NeedsStar(query_parts) ==
    Len(query_parts) = 1 /\ ~EndsWith(query_parts[1], <<"*">>)

\* lines 46-51: the query string put between "@title|content:(" and ")"
search_query(cleaned) ==
    LET query_parts == Split(cleaned, " ")
        starred == IF NeedsStar(query_parts) THEN query_parts[1] \o <<"*">> ELSE cleaned
    IN IF Len(query_parts) > 1
       THEN Join([i \in 1..Len(query_parts) |->
                     <<"%", "%">> \o query_parts[i] \o <<"%", "%">>], <<" ">>)
       ELSE starred

WikiSearch_search_propagate(idx, space, hits) ==
    IF Fmt(space) \in idx THEN [raised |-> FALSE, err |-> FALSE, hits |-> hits]
    ELSE [raised |-> TRUE, err |-> TRUE, hits |-> {}]

\* WikiSearch.search: FT.SEARCH on the index of the space; a backend response
\* error (the index does not exist) gives an empty result
WikiSearch_search(idx, space, hits) ==
    IF Fmt(space) \in idx THEN [raised |-> FALSE, err |-> FALSE, hits |-> hits]
    ELSE [raised |-> FALSE, err |-> TRUE, hits |-> {}]

\* lines 62-71: a hit as search returns it
ResultDoc(st, id) ==
    [id |-> id, name |-> DocName(id), route |-> st[id].route, rev |-> st[id].rev]

\* frappe.search.web_search(query, space) after lines 33-40: the pages in scope
WebDocs(space) ==
    {[id |-> <<>>, name |-> <<>>, route |-> pages[n].route, rev |-> pages[n].rev] :
        n \in {m \in DOMAIN pages : space = None \/ StartsWith(pages[m].route, space)}}

\* Python "not space"
Falsy(x) == x = <<>> \/ x = None

UseFallback_both(use, available) == ~use /\ ~available

\* the condition of line 30
UseFallback(use, available) == ~use \/ ~available

search(query, path, sp) ==
    /\ LET space == IF Falsy(sp) THEN get_space_route(path) ELSE sp
           base == [NoRet EXCEPT !.op = "search", !.arg = sp, !.path = path,
                                 !.space = space]
       IN
         IF UseFallback(use_redisearch, redisearch_available)
         THEN ret' = [base EXCEPT !.engine = "frappe_web_search",
                                  !.docs = WebDocs(space)]
         ELSE \E hits \in (IF Fmt(space) \in indexes
                           THEN SUBSET IndexedKeys(store, space) ELSE {{}}) :
                LET cq == clean_query(query)
                    res == WikiSearch_search(indexes, space, hits)
                IN ret' = [base EXCEPT !.engine = "redisearch", !.ft = TRUE,
                                       !.raised = res.raised, !.err = res.err,
                                       !.cq = cq, !.q = search_query(cq),
                                       !.docs = {ResultDoc(store, k) : k \in res.hits}]
    /\ UNCHANGED <<spaces, pages, use_redisearch, redisearch_available, flag,
                   queue, indexes, store, admitted, wpc, wi, wpages, wtodo, wlog,
                   calls, dropped, edits, faults>>

(***************************************************************************)
(* The site: callers, workers, page saves and deletions, searches          *)
(***************************************************************************)
QueryChars == {"a", "*", " "}

\* queries that hold an engine-unsafe character
UnsafeQueries == {<<"<">>, <<"a", "<">>, <<"<", "a", " ", "a">>, <<"a", "<", "*">>}

AllQueries == UNION {[1..k -> QueryChars] : k \in 0..MaxQueryLen} \cup UnsafeQueries

QueryPaths == PageRoutes \cup {<<"x", "/", "d">>}

\* no rebuild asked for, none running, no index built, nothing returned yet
Idle ==
    /\ flag = FALSE
    /\ queue = 0
    /\ indexes = {}
    /\ admitted = 0
    /\ wpc = [w \in Workers |-> "idle"]
    /\ wi = [w \in Workers |-> 0]
    /\ wpages = [w \in Workers |-> EmptyFn]
    /\ wtodo = [w \in Workers |-> <<>>]
    /\ wlog = [w \in Workers |-> <<>>]
    /\ calls = 0
    /\ dropped = 0
    /\ edits = 0
    /\ faults = 0
    /\ ret = NoRet

\* a site with its Wiki Spaces, redisearch switched on, no page yet
Init ==
    /\ spaces \in SpaceLists
    /\ pages = EmptyFn
    /\ store = EmptyFn
    /\ use_redisearch = TRUE
    /\ redisearch_available = TRUE
    /\ Idle

WorkerStep(w) ==
    \/ Rebuild_Start(w)
    \/ Rebuild_Drop(w)
    \/ Rebuild_Create(w)
    \/ Rebuild_Hset(w)
    \/ Rebuild_Finish(w)

Next ==
    \/ RIB_Call
    \/ RIB_Enqueue
    \/ \E w \in Workers : WorkerStep(w)
    \/ \E n \in Names, route \in PageRoutes : update_index(n, route)
    \/ \E n \in Names, route \in PageRoutes : remove_index_call(n, route)

Spec == Init /\ [][Next]_vars

(***************************************************************************)
(* Rebuilds alone, on a site whose pages were saved before                 *)
(***************************************************************************)
SavedPages ==
    (<<"p">> :> [name |-> <<"p">>, route |-> <<"d", "/", "a", "/", "i">>, rev |-> 1])
    @@ (<<"q">> :> [name |-> <<"q">>, route |-> <<"d", "/", "i">>, rev |-> 1])

\* the hashes update_index wrote when those pages were saved
RECURSIVE SavedStore(_)
SavedStore(k) ==
    IF k = 0 THEN EmptyFn
    ELSE LET d == SavedPages[NameOrder[k]] IN
         hset_record(SavedStore(k - 1), d, get_space_route(d.route))

LiveInit ==
    /\ spaces \in SpaceLists
    /\ pages = SavedPages
    /\ store = SavedStore(Len(NameOrder))
    /\ use_redisearch = TRUE
    /\ redisearch_available = TRUE
    /\ Idle

LiveNext ==
    \/ RIB_Call
    \/ RIB_Enqueue
    \/ \E w \in Workers : WorkerStep(w)

\* a background worker that has taken a job runs it to its end
LiveSpec == LiveInit /\ [][LiveNext]_vars /\ \A w \in Workers : WF_vars(WorkerStep(w))

(***************************************************************************)
(* Searches beside one rebuild worker and page saves                       *)
(***************************************************************************)
SearchNext ==
    \/ RIB_Call
    \/ RIB_Enqueue
    \/ WorkerStep("w1")
    \/ \E n \in Names, route \in PageRoutes : update_index(n, route)
    \/ \E sp \in {<<>>, spaces[1], spaces[2]} : search(<<"a">>, <<"d", "/", "i">>, sp)

SearchSpec == Init /\ [][SearchNext]_vars

(***************************************************************************)
(* search as a function of its arguments, the spaces and the settings      *)
(***************************************************************************)
QueryInit ==
    /\ spaces \in SpaceLists \cup {<<DA, D>>}
    /\ pages = EmptyFn
    /\ store = EmptyFn
    /\ use_redisearch \in BOOLEAN
    /\ redisearch_available \in BOOLEAN
    /\ Idle

QueryNext ==
    \/ \E path \in QueryPaths, sp \in {<<>>, D} : search(<<"a">>, path, sp)
    \/ \E query \in AllQueries : search(query, <<"d", "/", "i">>, D)

QuerySpec == QueryInit /\ [][QueryNext]_vars

(***************************************************************************)
(* Properties                                                              *)
(***************************************************************************)
Running(w) == wpc[w] # "idle"

\* C1: a call of rebuild_index_in_background made while the flag
\* wiki_page_index_in_progress is set admits and enqueues no rebuild_index job
\* and changes no state of the cache, the queue, the indexes or the workers.
C1_CallWhileInProgressIsNoOp ==
    [][(flag /\ calls' # calls) =>
          /\ admitted' = admitted
          /\ queue' = queue
          /\ UNCHANGED <<flag, indexes, store, pages, wpc, wi, wpages, wtodo, wlog>>]_vars

\* a call was dropped and the rebuild that made it drop is still running
C1_Witness ==
    /\ dropped > 0
    /\ flag
    /\ queue = 0 /\ admitted = 0
    /\ \E w \in Workers : Running(w)

\* C2: a rebuild_index run that has started ends, and when it has ended the
\* flag is false, whether or not a space's create or populate failed.
C2_StartedRebuildClearsFlag ==
    \A w \in Workers : Running(w) ~> (~Running(w) /\ ~flag)

\* a run in which a space failed has processed every space and is about to
\* clear the flag
C2_Witness ==
    \E w \in Workers :
        /\ wpc[w] = "finish"
        /\ flag
        /\ \E i \in 1..Len(spaces) : wlog[w][i] = "failed"

\* C3: a ResponseError in the iteration of one space does not end the loop:
\* the run reaches every space, and when the loop is over each space has been
\* either dropped, created and populated, or failed in its own iteration.
C3_ErrorDoesNotAbort ==
    \A w \in Workers :
        /\ wpc[w] \in {"drop", "create", "populate"} =>
              \A i \in 1..Len(spaces) :
                  IF i < wi[w] THEN wlog[w][i] \in {"ok", "failed"}
                  ELSE wlog[w][i] = "none"
        /\ wpc[w] = "finish" =>
              \A i \in 1..Len(spaces) : wlog[w][i] \in {"ok", "failed"}

\* a space failed and a later space was dropped, created and populated
C3_Witness ==
    \E w \in Workers :
        /\ wpc[w] = "finish"
        /\ \E i, j \in 1..Len(spaces) :
              /\ i < j
              /\ wlog[w][i] = "failed"
              /\ wlog[w][j] = "ok"
              /\ Fmt(spaces[j]) \in indexes

\* C4: the admission of rebuild_index_in_background is check-then-act: a call
\* is admitted only on a flag it read as unset, and being admitted does not set
\* the flag, so that a second call can be admitted before the first rebuild
\* has started.
C4_CheckThenAct ==
    [][(admitted' > admitted) => (~flag /\ ~flag')]_vars

\* two calls, both admitted, and both their rebuilds in progress at once
C4_Witness ==
    /\ calls = 2
    /\ dropped = 0
    /\ \A w \in Workers : wpc[w] \in {"drop", "create", "populate", "finish"}

C6_RemoveIdempotent ==
    [][\A n \in Names, route \in PageRoutes :
          (/\ edits' = edits + 1
           /\ ret'.d = [name |-> n, route |-> route]
           /\ remove_index_call(n, route)) =>
             LET space == get_space_route(route)
                 key == RecordKey(space, n)
             IN /\ ~ret'.raised
                /\ indexes' = indexes
                /\ (key \notin DOMAIN store \/ Fmt(space) \notin indexes) => store' = store
                /\ key \notin IndexedKeys(store', space) \/ Fmt(space) \notin indexes
                /\ remove_index(indexes', store', ret'.d).store = store'
                /\ ~remove_index(indexes', store', ret'.d).raised]_vars

\* remove_index returned normally for a space whose index does not exist
C6_Witness ==
    /\ ret.op = "remove_index"
    /\ ret.err
    /\ ~ret.raised

\* C7: a search in a space that hits the record written for page n of that
\* space returns n as the name and the record's route as the route.
C7_KeyRoundTrip ==
    (ret.op = "search" /\ ret.engine = "redisearch") =>
        \A doc \in ret.docs : \A n \in Names :
            doc.id = RecordKey(ret.space, n) => doc.name = n

\* a search returned the record of a page under its own name
C7_Witness ==
    /\ ret.op = "search"
    /\ \E doc \in ret.docs : \E n \in Names :
          doc.id = RecordKey(ret.space, n) /\ doc.name = n

Digits == {"0", "1", "2", "3", "4", "5", "6", "7", "8", "9"}

\* a path segment that marks a version: v and a number
IsVersionSegment(seg) ==
    /\ Len(seg) >= 2
    /\ seg[1] = "v"
    /\ \A i \in 2..Len(seg) : seg[i] \in Digits

\* the route lies in a version sub-route directly under the space
InVersionSubRoute(space, route) ==
    /\ StartsWith(route, space \o <<"/">>)
    /\ IsVersionSegment(Split(SubSeq(route, Len(space) + 2, Len(route)), "/")[1])

\* the index of the space exists and holds a record of page n
HasRecord(idx, st, space, n) ==
    Fmt(space) \in idx /\ RecordKey(space, n) \in IndexedKeys(st, space)

\* C8: when rebuild_index has dropped, created and populated the index of a
\* space, that index holds no record of a page it read whose route lies in a
\* version sub-route directly under the space.
C8_NoVersionRecordAfterRebuild ==
    [][\A w \in Workers : \A i \in 1..Len(spaces) :
          (wpc[w] \in {"create", "populate"} /\ wi[w] = i /\ wlog[w][i] = "none"
              /\ wpc'[w] \in {"drop", "finish"} /\ wlog'[w][i] = "ok") =>
             \A n \in DOMAIN wpages[w] :
                 InVersionSubRoute(spaces[i], wpages[w][n].route) =>
                    ~HasRecord(indexes', store', spaces[i], n)]_vars

\* a rebuild finished a space that has a page in a version sub-route
C8_Witness ==
    \E w \in Workers : \E i \in 1..Len(spaces) :
        /\ wpc[w] = "finish"
        /\ wlog[w][i] = "ok"
        /\ \E n \in DOMAIN wpages[w] : InVersionSubRoute(spaces[i], wpages[w][n].route)

\* the known space routes that are a prefix of the path
PrefixSpaces(path) == {i \in 1..Len(spaces) : StartsWith(path, spaces[i])}

\* the longest known space route that is a prefix of the path, None without one
LongestPrefixSpace(path) ==
    IF PrefixSpaces(path) = {} THEN None
    ELSE spaces[CHOOSE i \in PrefixSpaces(path) :
                   \A j \in PrefixSpaces(path) : Len(spaces[j]) <= Len(spaces[i])]

\* C9: a search called without a space takes the known space route that is the
\* longest prefix of the path.
C9_LongestPrefix ==
    (ret.op = "search" /\ Falsy(ret.arg)) => ret.space = LongestPrefixSpace(ret.path)

\* a search without a space derived the space from the path
C9_Witness ==
    /\ ret.op = "search"
    /\ Falsy(ret.arg)
    /\ ret.space # None
    /\ ret.space = LongestPrefixSpace(ret.path)

\* C10: a cleaned query of one term is issued as the term followed by "*",
\* and as it is when it already ends with "*".
C10_SingleTermStar ==
    (ret.op = "search" /\ ret.engine = "redisearch" /\ ~Contains(ret.cq, <<" ">>)) =>
        ret.q = IF EndsWith(ret.cq, <<"*">>) THEN ret.cq ELSE ret.cq \o <<"*">>

\* a one-term query that ends with "*" was issued unchanged
C10_Witness ==
    /\ ret.op = "search"
    /\ ret.engine = "redisearch"
    /\ ret.cq = <<"a", "*">>
    /\ ret.q = <<"a", "*">>

\* the whitespace-separated terms of a query: the parts that are not empty
Terms(cleaned) == SelectSeq(Split(cleaned, " "), LAMBDA part : part # <<>>)

\* a term between the fuzzy markers
Wrapped(term) == <<"%", "%">> \o term \o <<"%", "%">>

\* C11: a cleaned query of more than one whitespace-separated term is issued
\* as those terms, each as %%term%%, joined by single spaces, with no empty
\* term, also when more than one space separates two terms.  Stated for the
\* queries that neither begin nor end with a space, so that only the spaces
\* between two terms count.
C11_MultiTermWrapped ==
    (/\ ret.op = "search"
     /\ ret.engine = "redisearch"
     /\ Len(Terms(ret.cq)) > 1
     /\ Head(ret.cq) # " "
     /\ ret.cq[Len(ret.cq)] # " ") =>
        ret.q = Join([i \in 1..Len(Terms(ret.cq)) |-> Wrapped(Terms(ret.cq)[i])], <<" ">>)

\* two terms one space apart were issued wrapped
C11_Witness ==
    /\ ret.op = "search"
    /\ ret.engine = "redisearch"
    /\ ret.cq = <<"a", " ", "a">>
    /\ ret.q = <<"%", "%", "a", "%", "%", " ", "%", "%", "a", "%", "%">>

\* C12: search answers by web_search, labelled frappe_web_search and without
\* a call to the full-text backend, exactly when the setting is off or the
\* redisearch client is unavailable; otherwise it queries the index of the
\* space and labels the result redisearch.
C12_Routing ==
    ret.op = "search" =>
        IF ~use_redisearch \/ ~redisearch_available
        THEN ret.engine = "frappe_web_search" /\ ~ret.ft
        ELSE ret.engine = "redisearch" /\ ret.ft

\* the setting is on, the client is missing, and the fallback answered
C12_Witness ==
    /\ ret.op = "search"
    /\ use_redisearch
    /\ ~redisearch_available
    /\ ret.engine = "frappe_web_search"
    /\ ~ret.ft

\* worker w has run every iteration of its rebuild and no other rebuild runs
OnlyRebuildAtEnd(w) ==
    /\ wpc[w] = "finish"
    /\ \A w2 \in Workers \ {w} : wpc[w2] = "idle"

\* C13: when a rebuild has run and every update_index and remove_index that
\* overlapped it has returned, the index of each rebuilt space holds, of a page
\* the rebuild read, the content saved last, and holds no record of such a
\* page that was deleted meanwhile.
C13_RebuildKeepsLaterEdits ==
    \A w \in Workers :
        OnlyRebuildAtEnd(w) =>
            \A i \in 1..Len(spaces) : \A n \in DOMAIN wpages[w] :
                (wlog[w][i] = "ok" /\ HasRecord(indexes, store, spaces[i], n)) =>
                    /\ n \in DOMAIN pages
                    /\ store[RecordKey(spaces[i], n)].rev = pages[n].rev

\* a page was saved again while the rebuild that had read it was running
C13_Witness ==
    \E w \in Workers : \E n \in DOMAIN wpages[w] :
        /\ OnlyRebuildAtEnd(w)
        /\ n \in DOMAIN pages
        /\ pages[n].rev > wpages[w][n].rev
        /\ HasRecord(indexes, store, spaces[1], n)

\* the step in which worker w ends the iteration of space i without an error
SpaceDone(w, i) ==
    /\ wpc[w] \in {"create", "populate"}
    /\ wi[w] = i
    /\ wlog[w][i] = "none"
    /\ wpc'[w] \in {"drop", "finish"}
    /\ wlog'[w][i] = "ok"

\* key is the key of a record of page n, in whatever space
RecordOfPage(key, n) ==
    \E i \in 1..Len(spaces) + 1 :
        key = RecordKey(IF i > Len(spaces) THEN None ELSE spaces[i], n)

\* C14: when rebuild_index has finished a space without a backend error, the
\* index of the space holds records only of pages in the collection the
\* rebuild read; a record written earlier for a page deleted since, also one
\* written while no index existed, is gone.  Stated leaving out the pages
\* that exist now, so that a save made during the rebuild does not count.
C14_RebuildLeavesNoOrphan ==
    [][\A w \in Workers : \A i \in 1..Len(spaces) :
          SpaceDone(w, i) =>
             \A key \in IndexedKeys(store', spaces[i]) :
                 \E n \in DOMAIN wpages[w] \cup DOMAIN pages' : RecordOfPage(key, n)]_vars

\* a rebuild finished a space and its index holds a record
C14_Witness ==
    \E w \in Workers :
        /\ wpc[w] = "finish"
        /\ wlog[w][1] = "ok"
        /\ Fmt(spaces[1]) \in indexes
        /\ IndexedKeys(store, spaces[1]) # {}

\* C15: when no Wiki Space route matches the route of a page, update_index
\* and remove_index write and delete nothing: no record is ever stored under
\* a key built from the missing space.
C15_NoRecordUnderNone ==
    \A n \in Names : RecordKey(None, n) \notin DOMAIN store

\* a page was saved whose route no space matches
C15_Witness ==
    \E n \in DOMAIN pages :
        /\ get_space_route(pages[n].route) = None
        /\ pages[n].rev = 1

\* the spaces in whose index page n has a record of what was saved last
SpacesHolding(n) ==
    {i \in 1..Len(spaces) :
        /\ HasRecord(indexes, store, spaces[i], n)
        /\ store[RecordKey(spaces[i], n)] = Mapping(pages[n])}

\* C16: after a rebuild every page it read and indexed has a record in the
\* index of one space only, the space whose route is the longest prefix of
\* the route of the page.  Stated for the case the claim names, one space
\* lying under another.
C16_OneSpacePerPage ==
    \A w \in Workers :
        (/\ OnlyRebuildAtEnd(w)
         /\ \A i \in 1..Len(spaces) : wlog[w][i] = "ok"
         /\ StartsWith(spaces[2], spaces[1] \o <<"/">>)) =>
            \A n \in DOMAIN wpages[w] \cap DOMAIN pages :
                pages[n] = wpages[w][n] =>
                    /\ Cardinality(SpacesHolding(n)) <= 1
                    /\ \A i \in SpacesHolding(n) :
                           spaces[i] = LongestPrefixSpace(pages[n].route)

\* a rebuild ended without an error and indexed a page under a nested space
C16_Witness ==
    \E w \in Workers : \E n \in DOMAIN wpages[w] \cap DOMAIN pages :
        /\ OnlyRebuildAtEnd(w)
        /\ \A i \in 1..Len(spaces) : wlog[w][i] = "ok"
        /\ spaces[2] = DA
        /\ pages[n] = wpages[w][n]
        /\ pages[n].route = <<"d", "/", "a", "/", "i">>
        /\ 2 \in SpacesHolding(n)

\* C17: rebuild_index selects every page under a space but those in a version
\* sub-route: when it has finished a space without an error, the index holds
\* a record of every page it read that lies under the space and not in a
\* version sub-route, also of a page whose first segment only begins with v.
C17_AllButVersionsSelected ==
    [][\A w \in Workers : \A i \in 1..Len(spaces) :
          (SpaceDone(w, i) /\ \A w2 \in Workers \ {w} : wpc[w2] = "idle") =>
             \A n \in DOMAIN wpages[w] \cap DOMAIN pages' :
                 (/\ pages'[n] = wpages[w][n]
                  /\ StartsWith(pages'[n].route, spaces[i] \o <<"/">>)
                  /\ ~InVersionSubRoute(spaces[i], pages'[n].route)) =>
                     HasRecord(indexes', store', spaces[i], n)]_vars

\* a rebuild finished a space that has a page outside the version sub-routes
C17_Witness ==
    \E w \in Workers : \E n \in DOMAIN wpages[w] :
        /\ wpc[w] = "finish"
        /\ wlog[w][1] = "ok"
        /\ wpages[w][n].route = <<"d", "/", "i">>
        /\ HasRecord(indexes, store, spaces[1], n)

\* C18: in every reachable state, whatever calls of rebuild_index,
\* update_index and remove_index came before, no index holds a record of a
\* page whose route lies in a version sub-route directly under its space.
C18_NeverVersionRecord ==
    \A n \in DOMAIN pages : \A i \in 1..Len(spaces) :
        InVersionSubRoute(spaces[i], pages[n].route) =>
            ~HasRecord(indexes, store, spaces[i], n)

\* a page in a version sub-route was saved while the index of its space exists
C18_Witness ==
    \E n \in DOMAIN pages :
        /\ InVersionSubRoute(spaces[1], pages[n].route)
        /\ Fmt(spaces[1]) \in indexes

\* C19: drop_index of a space that has no index returns normally and leaves
\* every index and every record as it was, and drop_index of one space leaves
\* the index and the records of every other space as they were.
C19_DropIsolated ==
    [][\A w \in Workers :
          (wpc[w] = "drop" /\ wpc'[w] = "create") =>
             LET B == spaces[wi[w]] IN
               /\ Fmt(B) \notin indexes => (indexes' = indexes /\ store' = store)
               /\ \A i \in 1..Len(spaces) :
                     spaces[i] # B =>
                        /\ Fmt(spaces[i]) \in indexes <=> Fmt(spaces[i]) \in indexes'
                        /\ \A n \in Names :
                              LET key == RecordKey(spaces[i], n) IN
                              key \in DOMAIN store =>
                                 key \in DOMAIN store' /\ store'[key] = store[key]]_vars

\* drop_index ran for a space that had no index while a record was stored
C19_Witness ==
    \E w \in Workers :
        /\ wpc[w] = "create"
        /\ Fmt(spaces[wi[w]]) \notin indexes
        /\ store # EmptyFn

\* the records in the index of the space that search returns under name n
RecordsNamed(st, space, n) ==
    {key \in IndexedKeys(st, space) : DocName(key) = DocName(RecordKey(space, n))}

====
